---------------------------- MODULE Spec2Model ----------------------------
(***************************************************************************)
(* Model of yarn-nixpkgs' Nix-store backed package fetch                   *)
(* (nixUtils.ts, fetchers/NpmSemverFetcher.ts).                            *)
(*                                                                         *)
(* Strings are sequences of one-character strings.  A `string | null`      *)
(* value is a record [isNull, str].  Paths are records [dir, base].        *)
(* The cryptographic digests (sha256, sha512) are modelled as injective    *)
(* functions of their preimage.                                            *)
(***************************************************************************)
EXTENDS Integers, Sequences, FiniteSets, TLC

\* ------------------------------------------------------------------ bounds

\* Longest run of arbitrary characters placed before and after the filler
\* of a name given to sanitizeDerivationName.
MaxEdge == 2

\* Largest number of store paths that exist before any fetch starts.
MaxPreStore == 1

\* Longest buffer of arbitrary bytes given to encodeBase32.
MaxBufLen == 3

\* --------------------------------------------------------------- constants

Tasks == {"t1", "t2"}

\* Raw archive bodies the registry may serve.
Bytes == {1, 2}

\* slice(0, 207)
MaxNameLen == 207

CACHE_KEY_NS == <<"n", "i", "x", ".", "1", "/">>

StoreRoot == <<"nix", "store">>

Placeholder == <<"u", "n", "k", "n", "o", "w", "n">>

ZipSuffix == <<".", "z", "i", "p">>

\* The character class [a-zA-Z0-9+._?=-].
AllowedChars ==
  { "a", "b", "c", "d", "e", "f", "g", "h", "i", "j", "k", "l", "m",
    "n", "o", "p", "q", "r", "s", "t", "u", "v", "w", "x", "y", "z",
    "A", "B", "C", "D", "E", "F", "G", "H", "I", "J", "K", "L", "M",
    "N", "O", "P", "Q", "R", "S", "T", "U", "V", "W", "X", "Y", "Z",
    "0", "1", "2", "3", "4", "5", "6", "7", "8", "9",
    "+", ".", "_", "?", "=", "-" }

\* ------------------------------------------------------- string utilities

Min(a, b) == IF a < b THEN a ELSE b

\* String.prototype.slice(0, n)
Slice0(s, n) == SubSeq(s, 1, Min(Len(s), n))

\* String.prototype.startsWith
StartsWith(s, p) == Len(s) >= Len(p) /\ SubSeq(s, 1, Len(p)) = p

\* Number of "." characters at the start of s.
LeadingDots(s) ==
  IF \E i \in 1..Len(s) : s[i] # "."
    THEN (CHOOSE i \in 1..Len(s) :
            s[i] # "." /\ \A j \in 1..(i - 1) : s[j] = ".") - 1
    ELSE Len(s)

\* A plausible slip: /^\./ instead of /^\.+/ (one dot only).
StripLeadingDots_One(s) ==
  IF Len(s) > 0 /\ s[1] = "." THEN SubSeq(s, 2, Len(s)) ELSE s

\* .replace(/^\.+/, "")
StripLeadingDots(s) == SubSeq(s, LeadingDots(s) + 1, Len(s))

\* .replace(/[^a-zA-Z0-9+._?=-]+/g, "-"): every maximal run of disallowed
\* characters becomes one "-".  A position is kept when it holds an allowed
\* character or starts a run of disallowed ones.
ReplaceDisallowed(s) ==
  LET Keep(i) == s[i] \in AllowedChars \/ i = 1 \/ s[i - 1] \in AllowedChars
      idx == SelectSeq([i \in 1..Len(s) |-> i], Keep)
  IN  [j \in 1..Len(idx) |->
         IF s[idx[j]] \in AllowedChars THEN s[idx[j]] ELSE "-"]

\* A plausible slip: the `|| "unknown"` default left out.
OrUnknown_Missing(s) == s

\* `s || "unknown"`
OrUnknown(s) == IF s = <<>> THEN Placeholder ELSE s

sanitizeDerivationName(name) ==
  OrUnknown(Slice0(ReplaceDisallowed(StripLeadingDots(name)), MaxNameLen))

\* ------------------------------------------ sanitizeDerivationName inputs

SanAlphabet == {".", "a", "!", "-", "/"}

RECURSIVE SeqsUpTo(_, _)
SeqsUpTo(S, n) ==
  IF n = 0 THEN {<<>>}
  ELSE LET shorter == SeqsUpTo(S, n - 1)
       IN  shorter \cup {Append(s, c) : s \in shorter, c \in S}

Filler(n) == [i \in 1..n |-> "a"]

\* Filler lengths: none, and lengths that put the end of the name on either
\* side of the 207-character cut.
FillerLens == {0} \cup ((MaxNameLen - 3)..(MaxNameLen + 1))

SanInputs ==
  { pre \o Filler(n) \o post :
      pre \in SeqsUpTo(SanAlphabet, MaxEdge),
      n \in FillerLens,
      post \in SeqsUpTo(SanAlphabet, MaxEdge) }

VARIABLES sanIn, sanOut, sanAgain, sanPc

sanVars == <<sanIn, sanOut, sanAgain, sanPc>>

\* sanitizeDerivationName is not being exercised.
SanIdle ==
  /\ sanIn = <<>>
  /\ sanOut = <<>>
  /\ sanAgain = <<>>
  /\ sanPc = "off"

\* -------------------------------------------------------------- HashCodec

\* Buffers are sequences of bytes (0..255); bit strings are sequences of
\* 0 and 1.

BASE32_CHARSET ==
  << "0", "1", "2", "3", "4", "5", "6", "7", "8", "9", "a", "b", "c", "d",
     "f", "g", "h", "i", "j", "k", "l", "m", "n", "p", "q", "r", "s", "v",
     "w", "x", "y", "z" >>

\* The length of a sha256 digest, in bytes.
DigestLen == 32

\* compressHash(outerHash, 20)
StoreIdBytes == 20

\* a ^ b on bytes
Xor(a, b) ==
  LET Bit(n, i) == (n \div (2 ^ i)) % 2
      D(i) == IF Bit(a, i) # Bit(b, i) THEN 2 ^ i ELSE 0
  IN  D(0) + D(1) + D(2) + D(3) + D(4) + D(5) + D(6) + D(7)

\* The loop of compressHash from index idx (0-based) on:
\* result[idx % size] ^= hash[idx]
RECURSIVE CompressFrom(_, _, _, _)
CompressFrom(hash, size, idx, result) ==
  IF idx >= Len(hash)
    THEN result
    ELSE CompressFrom(hash, size, idx + 1,
           [result EXCEPT ![(idx % size) + 1] =
              Xor(result[(idx % size) + 1], hash[idx + 1])])

\* Buffer.alloc(size), then the loop
compressHash(hash, size) ==
  CompressFrom(hash, size, 0, [i \in 1..size |-> 0])

\* n.toString(2): the binary digits of n without leading zeros ("0" for 0).
RECURSIVE ToString2(_)
ToString2(n) ==
  IF n < 2 THEN <<n>> ELSE Append(ToString2(n \div 2), n % 2)

\* str.padStart(8, "0")
PadStart8(bits) == [i \in 1..(8 - Len(bits)) |-> 0] \o bits

\* A plausible slip: the padStart(8, "0") left out.
ByteBits_Unpadded(n) == ToString2(n)

\* n.toString(2).padStart(8, "0")
ByteBits(n) == PadStart8(ToString2(n))

\* [...buf].reverse()
Reverse(buf) == [i \in 1..Len(buf) |-> buf[Len(buf) + 1 - i]]

\* .map(ByteBits).join("")
RECURSIVE JoinBits(_)
JoinBits(bytes) ==
  IF bytes = <<>> THEN <<>>
  ELSE ByteBits(Head(bytes)) \o JoinBits(Tail(bytes))

\* parseInt(bits, 2) of a non-empty string of binary digits
RECURSIVE ParseInt2(_)
ParseInt2(bits) ==
  IF bits = <<>> THEN 0
  ELSE 2 * ParseInt2(SubSeq(bits, 1, Len(bits) - 1)) + bits[Len(bits)]

\* bits.slice(5)
SliceFrom5(bits) == SubSeq(bits, 6, Len(bits))

\* while (bits) { result += BASE32_CHARSET[parseInt(bits.slice(0, 5), 2)];
\*                bits = bits.slice(5) }
RECURSIVE EncodeBits(_)
EncodeBits(bits) ==
  IF bits = <<>> THEN <<>>
  ELSE <<BASE32_CHARSET[ParseInt2(Slice0(bits, 5)) + 1]>>
         \o EncodeBits(SliceFrom5(bits))

encodeBase32(buf) == EncodeBits(JoinBits(Reverse(buf)))

\* ------------------------------------------------------- HashCodec inputs

ByteSamples == {0, 1, 37, 128, 255}

BufInputs == SeqsUpTo(ByteSamples, MaxBufLen)

\* sha256 digests: 32 bytes that repeat a with b at every k-th place.
DigestInputs ==
  { [i \in 1..DigestLen |-> IF i % k = 0 THEN a ELSE b] :
      a \in ByteSamples, b \in ByteSamples, k \in 2..5 }

VARIABLES
  hashIn,    \* the digest given to compressHash (empty: none)
  buf,       \* the buffer given to encodeBase32
  encoded,   \* the string encodeBase32 returned
  codecPc

codecVars == <<hashIn, buf, encoded, codecPc>>

\* The hash codec is not being exercised.
CodecIdle ==
  /\ hashIn = <<>>
  /\ buf = <<>>
  /\ encoded = <<>>
  /\ codecPc = "off"

pureVars == <<sanVars, codecVars>>

\* ------------------------------------------------------------ data model

\* string | null
Null == [isNull |-> TRUE, str |-> <<>>]

Some(s) == [isNull |-> FALSE, str |-> s]

\* JavaScript truthiness of a `string | null`: null and "" are falsy.
Truthy(x) == ~x.isNull /\ x.str # <<>>

NoPath == [dir |-> <<>>, base |-> <<>>]

\* ppath.join(dir, base)
Join(dir, base) == [dir |-> dir, base |-> base]

\* structUtils.stringifyLocator(locator): a scoped and an unscoped package.
Locators == { <<"@", "s", "/", "p">>, <<"q">> }

\* OriginalFetcher.getLocatorUrl(locator): the registry path of the
\* tarball, the "/" of a scoped name escaped as %2f.
getLocatorUrl(loc) ==
  <<"/">> \o [i \in 1..Len(loc) |-> IF loc[i] = "/" THEN "%2f" ELSE loc[i]]
          \o <<".tgz">>

\* url.replace(/%2f/g, "/")
AltUrl(url) == [i \in 1..Len(url) |-> IF url[i] = "%2f" THEN "/" ELSE url[i]]

\* Files: what a path holds.  `by` names the program that wrote the file.
TgzOf(b) == [kind |-> "tgz", bytes |-> b, by |-> "writeFile"]

\* bsdtar -cf archive.zip --format=zip @archive.tgz: a function of the
\* input bytes alone (fixed mtime, fixed time zone).
ZipOf(b) == [kind |-> "zip", bytes |-> b, by |-> "bsdtar"]

PartialZipOf(b) == [kind |-> "partial", bytes |-> b, by |-> "bsdtar"]

HexDigit == <<"1", "2", "3", "4", "5", "6", "7", "8", "9">>

\* hashUtils.checksumFile: the sha512 hex digest of a file's content,
\* an injective function of the content.
Sha512Hex(file) ==
  << (IF file.kind = "zip" THEN "a" ELSE IF file.kind = "tgz" THEN "b" ELSE "c"),
     HexDigit[file.bytes] >>

\* encodeBase32(compressHash(computeHash("sha256", str), 20)): an injective
\* function of the preimage.
Hash32(str) == <<"<">> \o str \o <<">">>

\* computeHash("sha256", str).toString("hex")
Sha256Hex(str) == <<"[">> \o str \o <<"]">>

\* if (hash.startsWith(CACHE_KEY_NS)) hash = hash.slice(CACHE_KEY_NS.length)
StripNamespace(hash) ==
  IF StartsWith(hash, CACHE_KEY_NS)
    THEN SubSeq(hash, Len(CACHE_KEY_NS) + 1, Len(hash))
    ELSE hash

computeFixedOutputStorePath(name, hash) ==
  LET innerStr == <<"fixed:out:sha512:">> \o StripNamespace(hash) \o <<":">>
      outerStr == <<"output:out:sha256:">> \o Sha256Hex(innerStr)
                    \o <<":", "/nix/store", ":">> \o name
  IN  Join(StoreRoot, Hash32(outerStr) \o <<"-">> \o name)

locatorDerivationName(loc) == sanitizeDerivationName(loc \o ZipSuffix)

\* What `nix-store --add-fixed sha512 ./<name>` names the file it adds:
\* Nix's own fixed-output path of (file name, flat sha512 of the content).
NixFixedOutputPath(name, hex) ==
  LET innerStr == <<"fixed:out:sha512:">> \o hex \o <<":">>
      outerStr == <<"output:out:sha256:">> \o Sha256Hex(innerStr)
                    \o <<":", "/nix/store", ":">> \o name
  IN  Join(StoreRoot, Hash32(outerStr) \o <<"-">> \o name)

\* A store whose path algorithm differs from the local one.
NixDriftedPath(name, hex) == Join(StoreRoot, <<"~">> \o hex \o <<"-">> \o name)

\* xfs.existsPromise
Exists(f, p) == p \in DOMAIN f

\* xfs.writeFilePromise, and the output file of a subprocess
WriteFile(f, p, d) == [q \in DOMAIN f \cup {p} |-> IF q = p THEN d ELSE f[q]]

\* xfs.unlinkPromise
Unlink(f, p) == [q \in DOMAIN f \ {p} |-> f[q]]

\* xfs.renamePromise
Rename(f, a, b) == IF a = b THEN f ELSE WriteFile(Unlink(f, a), b, f[a])

\* xfs.mktempPromise(): a fresh directory owned by the calling task.
TempDir(t) == <<"tmp", t>>

TgzPath(t) == Join(TempDir(t), <<"archive.tgz">>)

ZipPath(t) == Join(TempDir(t), <<"archive.zip">>)

\* The archive body whose digest callers have on record (a lockfile entry
\* written when the registry served that body).
RecordedBytes == {1}

\* Checksums a caller may have on record: none, the empty string, and the
\* digest of the recorded archive with and without the cache namespace.
\* The registry may serve the recorded body or another one, so a recorded
\* digest may match the download or be stale.
Expected ==
  {Null, Some(<<>>)}
    \cup {Some(Sha512Hex(ZipOf(b))) : b \in RecordedBytes}
    \cup {Some(CACHE_KEY_NS \o Sha512Hex(ZipOf(b))) : b \in RecordedBytes}

\* Store contents left by earlier runs: archives imported by nix-store.
PreStores ==
  {S \in SUBSET (Locators \X Bytes) : Cardinality(S) <= MaxPreStore}

PrePath(lb) ==
  NixFixedOutputPath(locatorDerivationName(lb[1]), Sha512Hex(ZipOf(lb[2])))

PreStoreFs(S) ==
  [p \in {PrePath(lb) : lb \in S} |->
     LET lb == CHOOSE x \in S : PrePath(x) = p
     IN  [kind |-> "zip", bytes |-> lb[2], by |-> "nix-store"]]

Count(l, e) == Cardinality({i \in 1..Len(l) : l[i] = e})

Has(l, e) == \E i \in 1..Len(l) : l[i] = e

\* ------------------------------------------------------------ fetch state

VARIABLES
  fs,                \* the file system: path -> file
  pc,                \* where each fetch task is suspended
  locator,           \* argument `locator`
  expectedChecksum,  \* argument `expectedChecksum`
  derivationName,    \* const derivationName
  storePath,         \* let storePath
  checksum,          \* let checksum
  resultPath,        \* const resultPath (what the loader returned)
  sourceBuffer,      \* let sourceBuffer of fetchFromNetworkAlt (0: unset)
  normalized,        \* the buffer given to convertTgzToZip (0: none)
  gets,              \* the HTTP GETs issued: [url, resp], resp -1 pending,
                     \*   0 failed, b > 0 served body b
  log,               \* what the call did, in order
  importOut,         \* trimmed stdout of nix-store
  opened,            \* the path given to new ZipFS
  ret                \* the checksum returned to the caller

fetchVars ==
  <<fs, pc, locator, expectedChecksum, derivationName, storePath, checksum,
    resultPath, sourceBuffer, normalized, gets, log, importOut, opened, ret>>

vars == <<fetchVars, pureVars>>

callVars == <<locator, expectedChecksum, derivationName>>

\* No fetch has been called.
TasksIdle ==
  /\ pc = [t \in Tasks |-> "idle"]
  /\ locator = [t \in Tasks |-> <<>>]
  /\ expectedChecksum = [t \in Tasks |-> Null]
  /\ derivationName = [t \in Tasks |-> <<>>]
  /\ storePath = [t \in Tasks |-> NoPath]
  /\ checksum = [t \in Tasks |-> <<>>]
  /\ resultPath = [t \in Tasks |-> NoPath]
  /\ sourceBuffer = [t \in Tasks |-> 0]
  /\ normalized = [t \in Tasks |-> 0]
  /\ gets = [t \in Tasks |-> <<>>]
  /\ log = [t \in Tasks |-> <<>>]
  /\ importOut = [t \in Tasks |-> NoPath]
  /\ opened = [t \in Tasks |-> NoPath]
  /\ ret = [t \in Tasks |-> Null]

FetchInit ==
  /\ fs \in {PreStoreFs(S) : S \in PreStores}
  /\ TasksIdle

\* A plausible slip: the miss is reported once the loader has been started.
MissEvents_LoaderFirst == <<"loader", "onMiss">>

\* onMiss(); loader() -> fetchFromNetworkAlt -> npmHttpUtils.get(url)
MissEvents == <<"onMiss", "loader">>

FirstGet(loc) == <<[url |-> getLocatorUrl(loc), resp |-> -1]>>

\* The reply to the GET in flight.
Reply(g, r) == [g EXCEPT ![Len(g)].resp = r]

\* fetchPackageFromNixStore(locator, expectedChecksum, ...) up to its first
\* suspension: the existence check when a predicted path was computed, the
\* first GET of the loader otherwise.
Call(t, loc, exp) ==
  /\ pc[t] = "idle"
  /\ locator' = [locator EXCEPT ![t] = loc]
  /\ expectedChecksum' = [expectedChecksum EXCEPT ![t] = exp]
  /\ derivationName' = [derivationName EXCEPT ![t] = locatorDerivationName(loc)]
  /\ IF Truthy(exp)
       THEN /\ storePath' = [storePath EXCEPT ![t] =
                 computeFixedOutputStorePath(locatorDerivationName(loc), exp.str)]
            /\ pc' = [pc EXCEPT ![t] = "exists1"]
            /\ UNCHANGED <<log, gets>>
       ELSE /\ log' = [log EXCEPT ![t] = MissEvents]
            /\ gets' = [gets EXCEPT ![t] = FirstGet(loc)]
            /\ pc' = [pc EXCEPT ![t] = "get1"]
            /\ UNCHANGED storePath
  /\ UNCHANGED <<fs, checksum, resultPath, sourceBuffer, normalized,
                 importOut, opened, ret, pureVars>>

\* A plausible slip: the loader runs although the predicted path exists.
Exists1_AlwaysLoad(t) ==
  /\ pc[t] = "exists1"
  /\ log' = [log EXCEPT ![t] =
       <<(IF Exists(fs, storePath[t]) THEN "exists+" ELSE "exists-")>>
         \o MissEvents]
  /\ gets' = [gets EXCEPT ![t] = FirstGet(locator[t])]
  /\ pc' = [pc EXCEPT ![t] = "get1"]
  /\ UNCHANGED <<fs, callVars, storePath, checksum, resultPath, sourceBuffer,
                 normalized, importOut, opened, ret, pureVars>>

\* await xfs.existsPromise(storePath) resolves: hit or miss.
Exists1(t) ==
  /\ pc[t] = "exists1"
  /\ IF Exists(fs, storePath[t])
       THEN /\ log' = [log EXCEPT ![t] = <<"exists+", "onHit">>]
            /\ checksum' = [checksum EXCEPT ![t] = expectedChecksum[t].str]
            /\ pc' = [pc EXCEPT ![t] = "libzip"]
            /\ UNCHANGED gets
       ELSE /\ log' = [log EXCEPT ![t] = <<"exists-">> \o MissEvents]
            /\ gets' = [gets EXCEPT ![t] = FirstGet(locator[t])]
            /\ pc' = [pc EXCEPT ![t] = "get1"]
            /\ UNCHANGED checksum
  /\ UNCHANGED <<fs, callVars, storePath, resultPath, sourceBuffer,
                 normalized, importOut, opened, ret, pureVars>>

\* A GET returns a body: sourceBuffer is set and convertTgzToZip(sourceBuffer)
\* starts, suspended in mktempPromise.
GetOk(t, at, b) ==
  /\ pc[t] = at
  /\ gets' = [gets EXCEPT ![t] = Reply(gets[t], b)]
  /\ sourceBuffer' = [sourceBuffer EXCEPT ![t] = b]
  /\ normalized' = [normalized EXCEPT ![t] = b]
  /\ log' = [log EXCEPT ![t] = Append(log[t], "normalize")]
  /\ pc' = [pc EXCEPT ![t] = "mktemp"]
  /\ UNCHANGED <<fs, callVars, storePath, checksum, resultPath, importOut,
                 opened, ret, pureVars>>

Get1Ok(t, b) == GetOk(t, "get1", b)

Get2Ok(t, b) == GetOk(t, "get2", b)

\* A plausible slip: no try/catch, the first failure is surfaced.
Get1Fail_NoRetry(t) ==
  /\ pc[t] = "get1"
  /\ gets' = [gets EXCEPT ![t] = Reply(gets[t], 0)]
  /\ pc' = [pc EXCEPT ![t] = "error"]
  /\ UNCHANGED <<fs, callVars, storePath, checksum, resultPath, sourceBuffer,
                 normalized, log, importOut, opened, ret, pureVars>>

\* The first GET throws: the catch block issues the second GET.
Get1Fail(t) ==
  /\ pc[t] = "get1"
  /\ gets' = [gets EXCEPT ![t] =
       Append(Reply(gets[t], 0),
              [url |-> AltUrl(getLocatorUrl(locator[t])), resp |-> -1])]
  /\ pc' = [pc EXCEPT ![t] = "get2"]
  /\ UNCHANGED <<fs, callVars, storePath, checksum, resultPath, sourceBuffer,
                 normalized, log, importOut, opened, ret, pureVars>>

\* The second GET throws: the loader rejects, and so does the fetch.
Get2Fail(t) ==
  /\ pc[t] = "get2"
  /\ gets' = [gets EXCEPT ![t] = Reply(gets[t], 0)]
  /\ pc' = [pc EXCEPT ![t] = "error"]
  /\ UNCHANGED <<fs, callVars, storePath, checksum, resultPath, sourceBuffer,
                 normalized, log, importOut, opened, ret, pureVars>>

\* A step of convertTgzToZip that changes the file system to f and moves on.
ConvertStep(t, from, to, f) ==
  /\ pc[t] = from
  /\ fs' = f
  /\ pc' = [pc EXCEPT ![t] = to]
  /\ UNCHANGED <<callVars, storePath, checksum, resultPath, sourceBuffer,
                 normalized, gets, log, importOut, opened, ret, pureVars>>

\* await xfs.mktempPromise()
Mktemp(t) == ConvertStep(t, "mktemp", "writeTgz", fs)

\* await xfs.writeFilePromise(tgzPath, tgz)
WriteTgz(t) ==
  ConvertStep(t, "writeTgz", "utimes", WriteFile(fs, TgzPath(t), TgzOf(normalized[t])))

\* await xfs.utimesPromise(tgzPath, SAFE_TIME, SAFE_TIME)
Utimes(t) == ConvertStep(t, "utimes", "bsdtar", fs)

\* await execvp(bsdtarExe, ...) exits 0 with archive.zip written.
BsdtarOk(t) ==
  /\ Exists(fs, TgzPath(t))
  /\ ConvertStep(t, "bsdtar", "unlinkTgz",
                 WriteFile(fs, ZipPath(t), ZipOf(fs[TgzPath(t)].bytes)))

\* execvp(bsdtarExe, ..., strict) exits nonzero, leaving no or a truncated
\* archive.zip: the loader rejects.
BsdtarFail(t, partial) ==
  /\ Exists(fs, TgzPath(t))
  /\ ConvertStep(t, "bsdtar", "error",
                 IF partial
                   THEN WriteFile(fs, ZipPath(t), PartialZipOf(fs[TgzPath(t)].bytes))
                   ELSE fs)

\* await xfs.unlinkPromise(tgzPath); return zipPath.  The loader resolves and
\* hashUtils.checksumFile(resultPath) starts.
UnlinkTgz(t) ==
  /\ pc[t] = "unlinkTgz"
  /\ fs' = Unlink(fs, TgzPath(t))
  /\ resultPath' = [resultPath EXCEPT ![t] = ZipPath(t)]
  /\ pc' = [pc EXCEPT ![t] = "checksumFile"]
  /\ UNCHANGED <<callVars, storePath, checksum, sourceBuffer, normalized,
                 gets, log, importOut, opened, ret, pureVars>>

\* A plausible slip: the recorded checksum is trusted over the content.
ActualChecksum_Trusting(t) ==
  IF Truthy(expectedChecksum[t])
    THEN expectedChecksum[t].str
    ELSE CACHE_KEY_NS \o Sha512Hex(fs[resultPath[t]])

\* CACHE_KEY_NS + (await hashUtils.checksumFile(resultPath))
ActualChecksum(t) == CACHE_KEY_NS \o Sha512Hex(fs[resultPath[t]])

\* checksumFile resolves: checksum and storePath are set from the content,
\* and the second existence check starts.
ChecksumFile(t) ==
  /\ pc[t] = "checksumFile"
  /\ Exists(fs, resultPath[t])
  /\ checksum' = [checksum EXCEPT ![t] = ActualChecksum(t)]
  /\ storePath' = [storePath EXCEPT ![t] =
       computeFixedOutputStorePath(derivationName[t], ActualChecksum(t))]
  /\ log' = [log EXCEPT ![t] = Append(log[t], "checksum")]
  /\ pc' = [pc EXCEPT ![t] = "exists2"]
  /\ UNCHANGED <<fs, callVars, resultPath, sourceBuffer, normalized, gets,
                 importOut, opened, ret, pureVars>>

\* A plausible slip: the condition reversed.
Exists2_Reversed(t) ==
  /\ pc[t] = "exists2"
  /\ IF Exists(fs, storePath[t])
       THEN /\ log' = [log EXCEPT ![t] = Append(log[t], "recheck+")]
            /\ pc' = [pc EXCEPT ![t] = "rename"]
       ELSE /\ log' = [log EXCEPT ![t] = Append(log[t], "recheck-")]
            /\ pc' = [pc EXCEPT ![t] = "unlinkResult"]
  /\ UNCHANGED <<fs, callVars, storePath, checksum, resultPath, sourceBuffer,
                 normalized, gets, importOut, opened, ret, pureVars>>

\* await xfs.existsPromise(storePath) resolves after the loader: discard the
\* artifact when the path exists, import it otherwise.
Exists2(t) ==
  /\ pc[t] = "exists2"
  /\ IF Exists(fs, storePath[t])
       THEN /\ log' = [log EXCEPT ![t] = Append(log[t], "recheck+")]
            /\ pc' = [pc EXCEPT ![t] = "unlinkResult"]
       ELSE /\ log' = [log EXCEPT ![t] = Append(log[t], "recheck-")]
            /\ pc' = [pc EXCEPT ![t] = "rename"]
  /\ UNCHANGED <<fs, callVars, storePath, checksum, resultPath, sourceBuffer,
                 normalized, gets, importOut, opened, ret, pureVars>>

\* await xfs.unlinkPromise(resultPath)
UnlinkResult(t) ==
  /\ pc[t] = "unlinkResult"
  /\ fs' = Unlink(fs, resultPath[t])
  /\ log' = [log EXCEPT ![t] = Append(log[t], "discard")]
  /\ pc' = [pc EXCEPT ![t] = "libzip"]
  /\ UNCHANGED <<callVars, storePath, checksum, resultPath, sourceBuffer,
                 normalized, gets, importOut, opened, ret, pureVars>>

\* A plausible slip: the artifact is moved straight to the store path.
LoadPath_InStore(t) == storePath[t]

\* A plausible slip: the artifact is imported under its temporary name.
LoadPath_NotRenamed(t) == resultPath[t]

\* ppath.join(ppath.dirname(resultPath), derivationName)
LoadPath(t) == Join(resultPath[t].dir, derivationName[t])

\* await xfs.renamePromise(resultPath, loadPath); nix-store is started.
RenameResult(t) ==
  /\ pc[t] = "rename"
  /\ Exists(fs, resultPath[t])
  /\ fs' = Rename(fs, resultPath[t], LoadPath(t))
  /\ log' = [log EXCEPT ![t] = log[t] \o <<"rename", "import">>]
  /\ pc' = [pc EXCEPT ![t] = "nixStore"]
  /\ UNCHANGED <<callVars, storePath, checksum, resultPath, sourceBuffer,
                 normalized, gets, importOut, opened, ret, pureVars>>

\* nix-store --add-fixed: in one atomic step the file is added under `path`
\* unless that path is already there, in which case the store is untouched.
NixStoreAdd(f, from, path) ==
  IF Exists(f, path)
    THEN f
    ELSE WriteFile(f, path, [kind |-> f[from].kind, bytes |-> f[from].bytes,
                             by |-> "nix-store"])

\* A plausible slip: the printed path is not compared with storePath.
NixStoreReturn_NoAssert(t, out, f) ==
  /\ fs' = f
  /\ importOut' = [importOut EXCEPT ![t] = out]
  /\ log' = [log EXCEPT ![t] = Append(log[t], "imported")]
  /\ pc' = [pc EXCEPT ![t] = "unlinkLoad"]
  /\ UNCHANGED <<callVars, storePath, checksum, resultPath, sourceBuffer,
                 normalized, gets, opened, ret, pureVars>>

\* execvp resolves with stdout `out`, the store now being f:
\* if (stdout.trim() !== storePath) throw; else unlink loadPath.
NixStoreReturn(t, out, f) ==
  /\ fs' = f
  /\ importOut' = [importOut EXCEPT ![t] = out]
  /\ log' = [log EXCEPT ![t] = Append(log[t], "imported")]
  /\ pc' = [pc EXCEPT ![t] = IF out # storePath[t] THEN "error" ELSE "unlinkLoad"]
  /\ UNCHANGED <<callVars, storePath, checksum, resultPath, sourceBuffer,
                 normalized, gets, opened, ret, pureVars>>

\* nix-store exits 0 and prints the path it computed for the file, which is
\* the path the shared algorithm gives.
NixStoreOk(t) ==
  /\ pc[t] = "nixStore"
  /\ Exists(fs, LoadPath(t))
  /\ LET out == NixFixedOutputPath(LoadPath(t).base, Sha512Hex(fs[LoadPath(t)]))
     IN  NixStoreReturn(t, out, NixStoreAdd(fs, LoadPath(t), out))

\* nix-store exits 0 and prints a path of an algorithm that has drifted
\* from the local one.
NixStoreDrift(t) ==
  /\ pc[t] = "nixStore"
  /\ Exists(fs, LoadPath(t))
  /\ LET out == NixDriftedPath(LoadPath(t).base, Sha512Hex(fs[LoadPath(t)]))
     IN  NixStoreReturn(t, out, NixStoreAdd(fs, LoadPath(t), out))

\* nix-store exits 0 and prints nothing.
NixStoreSilent(t) ==
  /\ pc[t] = "nixStore"
  /\ NixStoreReturn(t, NoPath, fs)

\* nix-store exits nonzero: execvp(..., strict) throws.
NixStoreFail(t) ==
  /\ pc[t] = "nixStore"
  /\ log' = [log EXCEPT ![t] = Append(log[t], "importFailed")]
  /\ pc' = [pc EXCEPT ![t] = "error"]
  /\ UNCHANGED <<fs, callVars, storePath, checksum, resultPath, sourceBuffer,
                 normalized, gets, importOut, opened, ret, pureVars>>

\* await xfs.unlinkPromise(loadPath)
UnlinkLoad(t) ==
  /\ pc[t] = "unlinkLoad"
  /\ fs' = Unlink(fs, LoadPath(t))
  /\ pc' = [pc EXCEPT ![t] = "libzip"]
  /\ UNCHANGED <<callVars, storePath, checksum, resultPath, sourceBuffer,
                 normalized, gets, log, importOut, opened, ret, pureVars>>

\* A plausible slip: the checksum on record is returned.
Returned_Expected(t) == expectedChecksum[t]

\* return [packageFs, releaseFs, checksum]
Returned(t) == Some(checksum[t])

\* await getLibzipPromise(); new ZipFS(storePath, {readOnly: true}), which
\* throws when there is no file to open; return.
Open(t) ==
  /\ pc[t] = "libzip"
  /\ IF Exists(fs, storePath[t])
       THEN /\ opened' = [opened EXCEPT ![t] = storePath[t]]
            /\ log' = [log EXCEPT ![t] = Append(log[t], "open")]
            /\ ret' = [ret EXCEPT ![t] = Returned(t)]
            /\ pc' = [pc EXCEPT ![t] = "done"]
       ELSE /\ pc' = [pc EXCEPT ![t] = "error"]
            /\ UNCHANGED <<opened, log, ret>>
  /\ UNCHANGED <<fs, callVars, storePath, checksum, resultPath, sourceBuffer,
                 normalized, gets, importOut, pureVars>>

\* --------------------------------------------------------- specifications

Init == FetchInit /\ SanIdle /\ CodecIdle

\* The steps of a fetch whose collaborators all succeed.
NextHealthy ==
  \/ \E t \in Tasks, loc \in Locators, exp \in Expected : Call(t, loc, exp)
  \/ \E t \in Tasks : Exists1(t)
  \/ \E t \in Tasks, b \in Bytes : Get1Ok(t, b)
  \/ \E t \in Tasks : Mktemp(t)
  \/ \E t \in Tasks : WriteTgz(t)
  \/ \E t \in Tasks : Utimes(t)
  \/ \E t \in Tasks : BsdtarOk(t)
  \/ \E t \in Tasks : UnlinkTgz(t)
  \/ \E t \in Tasks : ChecksumFile(t)
  \/ \E t \in Tasks : Exists2(t)
  \/ \E t \in Tasks : UnlinkResult(t)
  \/ \E t \in Tasks : RenameResult(t)
  \/ \E t \in Tasks : NixStoreOk(t)
  \/ \E t \in Tasks : UnlinkLoad(t)
  \/ \E t \in Tasks : Open(t)

\* The steps that a failing collaborator adds.
NextFaulty ==
  \/ \E t \in Tasks : Get1Fail(t)
  \/ \E t \in Tasks, b \in Bytes : Get2Ok(t, b)
  \/ \E t \in Tasks : Get2Fail(t)
  \/ \E t \in Tasks, partial \in BOOLEAN : BsdtarFail(t, partial)
  \/ \E t \in Tasks : NixStoreDrift(t)
  \/ \E t \in Tasks : NixStoreSilent(t)
  \/ \E t \in Tasks : NixStoreFail(t)

Next == NextHealthy \/ NextFaulty

\* Concurrent fetches with collaborators that may fail.  A task that is
\* cancelled, or whose process is killed, while it is suspended is a task
\* that takes no further step: every reachable state is also the state such
\* a task leaves behind.
Spec == Init /\ [][Next]_vars

\* Concurrent fetches with collaborators that succeed.
SpecHealthy == Init /\ [][NextHealthy]_vars

\* An input of sanitizeDerivationName, and no fetch running.
InitSan ==
  /\ fs = PreStoreFs({})
  /\ pc = [t \in Tasks |-> "idle"]
  /\ locator = [t \in Tasks |-> <<>>]
  /\ expectedChecksum = [t \in Tasks |-> Null]
  /\ derivationName = [t \in Tasks |-> <<>>]
  /\ storePath = [t \in Tasks |-> NoPath]
  /\ checksum = [t \in Tasks |-> <<>>]
  /\ resultPath = [t \in Tasks |-> NoPath]
  /\ sourceBuffer = [t \in Tasks |-> 0]
  /\ normalized = [t \in Tasks |-> 0]
  /\ gets = [t \in Tasks |-> <<>>]
  /\ log = [t \in Tasks |-> <<>>]
  /\ importOut = [t \in Tasks |-> NoPath]
  /\ opened = [t \in Tasks |-> NoPath]
  /\ ret = [t \in Tasks |-> Null]
  /\ sanIn \in SanInputs
  /\ sanOut = <<>>
  /\ sanAgain = <<>>
  /\ sanPc = "input"
  /\ hashIn = <<>>
  /\ buf = <<>>
  /\ encoded = <<>>
  /\ codecPc = "off"

\* sanitizeDerivationName(x)
Sanitize ==
  /\ sanPc = "input"
  /\ sanOut' = sanitizeDerivationName(sanIn)
  /\ sanPc' = "once"
  /\ UNCHANGED <<sanIn, sanAgain, fetchVars, codecVars>>

\* sanitizeDerivationName(sanitizeDerivationName(x))
Resanitize ==
  /\ sanPc = "once"
  /\ sanAgain' = sanitizeDerivationName(sanOut)
  /\ sanPc' = "twice"
  /\ UNCHANGED <<sanIn, sanOut, fetchVars, codecVars>>

NextSan == Sanitize \/ Resanitize

\* sanitizeDerivationName applied once and twice to each input.
SpecSan == InitSan /\ [][NextSan]_vars

\* A digest to compress and encode, or a buffer to encode, and no fetch
\* running.
InitCodec ==
  /\ fs = PreStoreFs({})
  /\ TasksIdle
  /\ SanIdle
  /\ encoded = <<>>
  /\ \/ /\ hashIn \in DigestInputs
        /\ buf = <<>>
        /\ codecPc = "digest"
     \/ /\ hashIn = <<>>
        /\ buf \in BufInputs
        /\ codecPc = "buffer"

\* compressHash(outerHash, 20)
Compress ==
  /\ codecPc = "digest"
  /\ buf' = compressHash(hashIn, StoreIdBytes)
  /\ codecPc' = "buffer"
  /\ UNCHANGED <<hashIn, encoded, fetchVars, sanVars>>

\* encodeBase32(buf)
Encode ==
  /\ codecPc = "buffer"
  /\ encoded' = encodeBase32(buf)
  /\ codecPc' = "encoded"
  /\ UNCHANGED <<hashIn, buf, fetchVars, sanVars>>

NextCodec == Compress \/ Encode

\* compressHash and encodeBase32 applied to each input.
SpecCodec == InitCodec /\ [][NextCodec]_vars

\* ------------------------------------------------------------------ claims

\* The path predicted from the arguments of the call of task t.
Predicted(t) ==
  computeFixedOutputStorePath(locatorDerivationName(locator[t]),
                              expectedChecksum[t].str)

\* C1: a call whose expectedChecksum is non-null and whose predicted path
\* exists at the existence check reports a hit, never invokes the loader or
\* the store import, and returns expectedChecksum unchanged.
C1_HitSkipsLoader ==
  \A t \in Tasks :
    (log[t] # <<>> /\ log[t][1] = "exists+") =>
      /\ ~expectedChecksum[t].isNull
      /\ storePath[t] = Predicted(t)
      /\ Count(log[t], "onHit") = 1
      /\ ~Has(log[t], "loader")
      /\ gets[t] = <<>>
      /\ normalized[t] = 0
      /\ ~Has(log[t], "import")
      /\ importOut[t] = NoPath
      /\ checksum[t] = expectedChecksum[t].str
      /\ pc[t] \in {"libzip", "done"}
      /\ (pc[t] = "done" => ret[t] = expectedChecksum[t])

C1_Witness ==
  \E t \in Tasks :
    /\ pc[t] = "done"
    /\ log[t][1] = "exists+"
    /\ StartsWith(expectedChecksum[t].str, CACHE_KEY_NS)

\* C2: a call that misses (expectedChecksum null or empty, or the predicted
\* path absent at the check) invokes the loader, and on success returns
\* "nix.1/" followed by the checksum of the archive made from the downloaded
\* body, and opens the path derived from that checksum, whatever
\* expectedChecksum was.
C2_MissUsesActualContent ==
  \A t \in Tasks :
    /\ (pc[t] # "idle" /\ ~Truthy(expectedChecksum[t])) => Has(log[t], "onMiss")
    /\ (log[t] # <<>> /\ log[t][1] = "exists-") => Has(log[t], "onMiss")
    /\ Has(log[t], "onMiss") =>
         /\ Count(log[t], "loader") = 1
         /\ Len(gets[t]) >= 1
         /\ pc[t] = "done" =>
              /\ sourceBuffer[t] \in Bytes
              /\ LET actual == CACHE_KEY_NS \o Sha512Hex(ZipOf(sourceBuffer[t]))
                 IN  /\ ret[t] = Some(actual)
                     /\ opened[t] = computeFixedOutputStorePath(
                                      locatorDerivationName(locator[t]), actual)

C2_Witness ==
  \E t \in Tasks :
    /\ pc[t] = "done"
    /\ Has(log[t], "onMiss")
    /\ Truthy(expectedChecksum[t])
    /\ StripNamespace(expectedChecksum[t].str) # StripNamespace(ret[t].str)

\* C3: once a fetch has returned checksum c for a locator, the store path
\* derived from the locator's derivation name and c exists and is the path
\* that was opened; and any existence check that resolves afterwards for the
\* same locator with expectedChecksum = c is a hit that invokes no loader.
C3_ReturnedPathExists ==
  \A t \in Tasks :
    pc[t] = "done" =>
      /\ ~ret[t].isNull
      /\ Exists(fs, computeFixedOutputStorePath(
                      locatorDerivationName(locator[t]), ret[t].str))
      /\ opened[t] = computeFixedOutputStorePath(
                       locatorDerivationName(locator[t]), ret[t].str)

C3_LaterFetchHits ==
  \A t \in Tasks, u \in Tasks :
    ( /\ pc[t] = "done"
      /\ pc[u] = "exists1"
      /\ pc'[u] # "exists1"
      /\ locator[u] = locator[t]
      /\ expectedChecksum[u] = ret[t] ) =>
        /\ pc'[u] = "libzip"
        /\ log'[u] = <<"exists+", "onHit">>
        /\ gets'[u] = <<>>

C3_ReturnedChecksumHits ==
  [] C3_ReturnedPathExists /\ [][C3_LaterFetchHits]_vars

C3_Witness ==
  \E t \in Tasks, u \in Tasks :
    /\ pc[t] = "done"
    /\ Has(log[t], "imported")
    /\ pc[u] = "done"
    /\ log[u][1] = "exists+"
    /\ locator[u] = locator[t]
    /\ expectedChecksum[u] = ret[t]

\* C4: on the miss path, when the re-derived store path exists at the second
\* existence check, the artifact is deleted, the store import is not
\* invoked, no error is raised and the existing store path is opened.
C4_DiscardOnRace ==
  \A t \in Tasks :
    Has(log[t], "recheck+") =>
      /\ Has(log[t], "loader")
      /\ ~Has(log[t], "rename")
      /\ ~Has(log[t], "import")
      /\ importOut[t] = NoPath
      /\ pc[t] \in {"unlinkResult", "libzip", "done"}
      /\ pc[t] \in {"libzip", "done"} =>
           /\ Has(log[t], "discard")
           /\ ~Exists(fs, resultPath[t])
           /\ ~Exists(fs, LoadPath(t))
      /\ pc[t] = "done" =>
           /\ opened[t] = storePath[t]
           /\ Exists(fs, storePath[t])
           /\ fs[storePath[t]].by = "nix-store"

C4_Witness ==
  \E t \in Tasks :
    /\ pc[t] = "done"
    /\ Has(log[t], "recheck+")
    /\ \E u \in Tasks : Has(log[u], "imported") /\ storePath[u] = storePath[t]

\* Two tasks that have both downloaded the same body for the same locator.
SameDownload(t, u) ==
  /\ t # u
  /\ locator[t] = locator[u]
  /\ Has(log[t], "loader")
  /\ Has(log[u], "loader")
  /\ sourceBuffer[t] \in Bytes
  /\ sourceBuffer[t] = sourceBuffer[u]

\* C5 (as amended): two concurrent fetches of the same locator that download
\* the same body never end in an error; when both have returned, each has
\* either imported or discarded its artifact (both may have imported), and
\* both return the same checksum and have opened the same existing path.
C5_BenignRace ==
  /\ \A t \in Tasks : pc[t] # "error"
  /\ \A t \in Tasks, u \in Tasks :
       (SameDownload(t, u) /\ pc[t] = "done" /\ pc[u] = "done") =>
         /\ ret[t] = ret[u]
         /\ opened[t] = opened[u]
         /\ Exists(fs, opened[t])
         /\ Has(log[t], "imported") \/ Has(log[t], "discard")
         /\ ~(Has(log[t], "imported") /\ Has(log[t], "discard"))

C5_Witness ==
  \E t \in Tasks, u \in Tasks :
    /\ SameDownload(t, u)
    /\ pc[t] = "done"
    /\ pc[u] = "done"
    /\ Has(log[t], "imported")
    /\ Has(log[u], "imported")

\* C5 (as claimed): ... one task imports and the other discards its
\* artifact, neither ends in an error, and both return the same checksum and
\* open the same path.  Stated for races in which the store path was not
\* there before either task looked, that is, in which some task imports.
C5_OneImportsOtherDiscards ==
  \A t \in Tasks, u \in Tasks :
    ( /\ SameDownload(t, u)
      /\ pc[t] = "done"
      /\ pc[u] = "done"
      /\ Has(log[t], "import") ) =>
        /\ Has(log[u], "discard")
        /\ ~Has(log[u], "import")
        /\ ret[t] = ret[u]
        /\ opened[t] = opened[u]

\* C6: in every reachable state, of failed and of abandoned fetches too,
\* every file under the store root was written by the atomic store import
\* and is a complete archive, and a store path that exists is never removed
\* or rewritten.
C6_StoreFilesImported ==
  \A p \in DOMAIN fs :
    p.dir = StoreRoot => fs[p].by = "nix-store" /\ fs[p].kind = "zip"

C6_StoreNeverOverwritten ==
  \A p \in DOMAIN fs :
    p.dir = StoreRoot => p \in DOMAIN fs' /\ fs'[p] = fs[p]

C6_StoreWrittenOnlyByImport ==
  [] C6_StoreFilesImported /\ [][C6_StoreNeverOverwritten]_vars

C6_Witness ==
  /\ \E t \in Tasks :
       /\ pc[t] = "error"
       /\ Exists(fs, ZipPath(t))
       /\ fs[ZipPath(t)].kind = "partial"
  /\ \E u \in Tasks :
       /\ Has(log[u], "imported")
       /\ Exists(fs, importOut[u])
       /\ importOut[u] = storePath[u]

\* C7: when the store import prints a path other than storePath, prints
\* nothing, or fails, the fetch ends in an error: nothing is opened, no
\* checksum is returned, and neither the import nor the loader runs again.
C7_ImportMismatchIsFatal ==
  \A t \in Tasks :
    ( \/ Has(log[t], "importFailed")
      \/ Has(log[t], "imported") /\ importOut[t] # storePath[t] ) =>
        /\ pc[t] = "error"
        /\ ret[t] = Null
        /\ opened[t] = NoPath
        /\ ~Has(log[t], "open")
        /\ Count(log[t], "import") = 1
        /\ Count(log[t], "loader") = 1

C7_Witness ==
  \E t \in Tasks :
    /\ Has(log[t], "imported")
    /\ importOut[t] # NoPath
    /\ importOut[t] # storePath[t]
    /\ Exists(fs, importOut[t])

\* C8: one loader invocation issues at most two GETs, the first for the
\* locator's URL and the second, issued exactly when the first has failed,
\* for that URL with %2f unescaped; when the second fails too the fetch
\* fails and the normalizer is never invoked; when a GET succeeds its body
\* is the one given to the normalizer.
C8_SingleRetry ==
  \A t \in Tasks :
    LET g == gets[t] IN
      /\ Len(g) <= 2
      /\ Len(g) >= 1 => g[1].url = getLocatorUrl(locator[t])
      /\ (Len(g) >= 1 /\ g[1].resp = 0) => Len(g) = 2
      /\ Len(g) = 2 =>
           /\ g[1].resp = 0
           /\ g[2].url = AltUrl(getLocatorUrl(locator[t]))
           /\ g[2].resp = 0 =>
                pc[t] = "error" /\ normalized[t] = 0 /\ ~Has(log[t], "normalize")
      /\ Has(log[t], "normalize") =>
           /\ g[Len(g)].resp \in Bytes
           /\ normalized[t] = g[Len(g)].resp
           /\ Count(log[t], "normalize") = 1
      /\ (Len(g) >= 1 /\ g[Len(g)].resp \in Bytes) => normalized[t] = g[Len(g)].resp

C8_Witness ==
  \E t \in Tasks :
    /\ Len(gets[t]) = 2
    /\ gets[t][2].url # gets[t][1].url
    /\ gets[t][2].resp \in Bytes
    /\ pc[t] = "done"

\* C9: sanitizeDerivationName is idempotent: sanitizing its result again
\* gives the same result.
C9_SanitizeIdempotent ==
  sanPc = "twice" => sanAgain = sanOut

C9_Witness ==
  /\ sanPc = "twice"
  /\ Len(sanIn) > MaxNameLen
  /\ Len(sanOut) = MaxNameLen
  /\ sanOut # Slice0(sanIn, MaxNameLen)

\* C10: the result of sanitizeDerivationName is non-empty, at most 207
\* characters long, does not start with a dot and has only characters of
\* [A-Za-z0-9+._?=-]; it is "unknown" when stripping, replacing and cutting
\* leave nothing, which is when the input has nothing but dots.
C10_SanitizedShape ==
  sanPc \in {"once", "twice"} =>
    /\ sanOut # <<>>
    /\ Len(sanOut) <= MaxNameLen
    /\ sanOut[1] # "."
    /\ \A i \in 1..Len(sanOut) : sanOut[i] \in AllowedChars
    /\ (\A i \in 1..Len(sanIn) : sanIn[i] = ".") => sanOut = Placeholder
    /\ (\E i \in 1..Len(sanIn) : sanIn[i] # ".") =>
         sanOut = Slice0(ReplaceDisallowed(StripLeadingDots(sanIn)), MaxNameLen)

C10_Witness ==
  /\ sanPc = "once"
  /\ sanIn = <<".", ".">>
  /\ sanOut = Placeholder

\* ceil(a / b)
CeilDiv(a, b) == (a + b - 1) \div b

\* C11: encodeBase32 returns ceil(8 * byteLength / 5) characters, each of
\* the 32-character alphabet; the buffer compressHash makes of a digest has
\* 20 bytes and encodes to exactly 32 characters.
C11_Base32Shape ==
  /\ codecPc \in {"buffer", "encoded"} /\ hashIn # <<>> => Len(buf) = 20
  /\ codecPc = "encoded" =>
       /\ Len(encoded) = CeilDiv(8 * Len(buf), 5)
       /\ \A i \in 1..Len(encoded) :
            \E k \in 1..32 : encoded[i] = BASE32_CHARSET[k]
       /\ hashIn # <<>> => Len(encoded) = 32

C11_Witness ==
  /\ codecPc = "encoded"
  /\ Len(hashIn) = DigestLen
  /\ Len(encoded) = 32
  /\ \E i \in 1..32, j \in 1..32 : encoded[i] # encoded[j]

IsPrefix(a, b) == Len(a) <= Len(b) /\ SubSeq(b, 1, Len(a)) = a

\* The complete runs of a call, as the order of what it does: a hit; or a
\* miss (after an existence check or without one) that loads, normalizes,
\* checksums, checks again and then discards, or renames and imports.
C12_HitRun == <<"exists+", "onHit", "open">>

C12_MissEnds ==
  { <<"recheck+", "discard", "open">>,
    <<"recheck-", "rename", "import", "imported", "open">>,
    <<"recheck-", "rename", "import", "importFailed">> }

C12_Runs ==
  {C12_HitRun} \cup
    { first \o <<"onMiss", "loader", "normalize", "checksum">> \o end :
        first \in {<<>>, <<"exists-">>}, end \in C12_MissEnds }

\* C12: what a call has done is always the beginning of one complete run:
\* exactly one of onHit and onMiss is reported, once, as soon as the call is
\* past its first existence check; onMiss comes before the loader; loader
\* and store import run at most once; the archive is opened last, after the
\* store path was found (exists+, recheck+) or imported, and the path opened
\* exists; a call that has returned has done a complete run ending in open.
C12_CallOrder ==
  \A t \in Tasks :
    /\ \E run \in C12_Runs : IsPrefix(log[t], run)
    /\ Count(log[t], "onHit") + Count(log[t], "onMiss")
         = (IF pc[t] \in {"idle", "exists1"} THEN 0 ELSE 1)
    /\ Count(log[t], "loader") <= 1
    /\ Count(log[t], "import") <= 1
    /\ Len(gets[t]) >= 1 => Has(log[t], "onMiss")
    /\ Has(log[t], "open") <=> pc[t] = "done"
    /\ Has(log[t], "open") =>
         /\ log[t] \in C12_Runs
         /\ opened[t] = storePath[t]
         /\ Exists(fs, opened[t])
         /\ Has(log[t], "imported") => importOut[t] = storePath[t]
    /\ ~Has(log[t], "open") => opened[t] = NoPath

C12_Witness ==
  \E t \in Tasks, u \in Tasks :
    /\ pc[t] = "done"
    /\ log[t] = <<"exists-", "onMiss", "loader", "normalize", "checksum",
                  "recheck-", "rename", "import", "imported", "open">>
    /\ pc[u] = "done"
    /\ log[u] = <<"onMiss", "loader", "normalize", "checksum",
                  "recheck+", "discard", "open">>

=============================================================================
